---- MODULE Spec2Model ----
(***************************************************************************)
(* A model of the PHEnergyCorrelator analysis headers:                     *)
(*   PHCorrelatorAnaTools.h  bin-edge generation and angle wrapping        *)
(*   PHCorrelatorBins.h      the Binning value class and the Bins registry *)
(*   PHCorrelatorCalculator.h  the Calculator: index lookup and filling     *)
(*                                                                         *)
(* Doubles.  A C++ double is modelled as a tagged value:                   *)
(*   [t |-> "fin", v |-> n]   the finite number n / Unit                   *)
(*   [t |-> "pow", v |-> q]   the finite number Base^(q / Unit), q # 0,    *)
(*                            the image of Exponentiate (Base > 1)         *)
(*   "nan", "pinf", "ninf"    the IEEE specials                            *)
(* Finite arithmetic is IEEE arithmetic with the precision reduced to      *)
(* fixed point: sums are exact, a quotient is rounded to the nearest       *)
(* multiple of 1/Unit, ties to even.  These are the roundings a double     *)
(* performs in its subnormal range, so every rounding in the model is one  *)
(* the hardware performs, at a coarser grain.                              *)
(*                                                                         *)
(* assert.  The contract checks of the headers are assert() calls, which   *)
(* are compiled out when NDEBUG is defined.  The build is not fixed by the *)
(* headers, so ndebug is chosen once, in Init, and both builds are         *)
(* explored.                                                               *)
(***************************************************************************)
EXTENDS Integers, Sequences, FiniteSets, Bags, TLC

VARIABLES
  m_bins,    \* Bins::m_bins : std::map<std::string, Binning>
  ndebug,    \* TRUE iff the translation unit is compiled with NDEBUG
  status,    \* "running", "aborted" (a failed assert) or "crashed"
  calc,      \* a Calculator: its options, its bins and its HistManager
  shards,    \* the Calculators of a sharded run, one per shard
  call       \* the operation executed last, its arguments and its result

vars == <<m_bins, ndebug, status, calc, shards, call>>

-----------------------------------------------------------------------------
(* Doubles *)

\* The number of model quanta in 1.0 (the fixed-point grain is 1/Unit).
Unit == 1024

Fin(n) == [t |-> "fin", v |-> n]
Pow(q) == [t |-> "pow", v |-> q]
NaN  == [t |-> "nan", v |-> 0]
PInf == [t |-> "pinf", v |-> 0]
NInf == [t |-> "ninf", v |-> 0]

\* a < b on doubles.  Every comparison with NaN is false.  A "pow" value is
\* positive, and is below 1.0 iff its exponent is negative; "pow" values are
\* only compared with each other, with non-positive numbers and with 1.0.
FLess(a, b) ==
  CASE a.t = "nan" \/ b.t = "nan" -> FALSE
    [] a.t = "ninf" -> b.t # "ninf"
    [] b.t = "pinf" -> a.t # "pinf"
    [] a.t = "pinf" \/ b.t = "ninf" -> FALSE
    [] a.t = "fin" /\ b.t = "fin" -> a.v < b.v
    [] a.t = "pow" /\ b.t = "pow" -> a.v < b.v
    [] a.t = "pow" /\ b.t = "fin" /\ (b.v <= 0 \/ b.v = Unit) ->
         b.v = Unit /\ a.v < 0
    [] a.t = "fin" /\ b.t = "pow" /\ (a.v <= 0 \/ a.v = Unit) ->
         a.v <= 0 \/ b.v > 0

FGreater(a, b) == FLess(b, a)
FLeq(a, b) == a.t # "nan" /\ b.t # "nan" /\ ~FLess(b, a)

FNeg(a) ==
  CASE a.t = "fin" -> Fin(0 - a.v)
    [] a.t = "pinf" -> NInf
    [] a.t = "ninf" -> PInf
    [] OTHER -> NaN

\* a + b: exact on finite numbers; inf + (-inf) is NaN.
FAdd(a, b) ==
  CASE a.t = "nan" \/ b.t = "nan" -> NaN
    [] a.t = "pinf" -> IF b.t = "ninf" THEN NaN ELSE PInf
    [] a.t = "ninf" -> IF b.t = "pinf" THEN NaN ELSE NInf
    [] b.t \in {"pinf", "ninf"} -> b
    [] OTHER -> Fin(a.v + b.v)

FSub(a, b) == FAdd(a, FNeg(b))

\* n / d for an integer d > 0, rounded to the nearest integer, ties to even.
RoundHalfEven(n, d) ==
  LET q == n \div d
      r == n % d
  IN  IF 2 * r < d THEN q
      ELSE IF 2 * r > d THEN q + 1
      ELSE q + (q % 2)

\* a / num, num a std::size_t converted to double.  x / 0 is +-inf, 0 / 0 NaN.
FDivN(a, num) ==
  CASE a.t = "nan" -> NaN
    [] a.t \in {"pinf", "ninf"} -> a
    [] num = 0 -> IF a.v > 0 THEN PInf ELSE IF a.v < 0 THEN NInf ELSE NaN
    [] OTHER -> Fin(RoundHalfEven(a.v, num))

-----------------------------------------------------------------------------
(* PHCorrelatorAnaTools.h: Exponentiate, Log, GetBinEdges *)

\* std::pow(Const::Base(), arg), for a base above 1: Base^(-inf) is 0,
\* Base^0 is 1.0, and any other finite power is kept as a "pow" value.
Exponentiate(arg) ==
  CASE arg.t = "nan" -> NaN
    [] arg.t = "ninf" -> Fin(0)
    [] arg.t = "pinf" -> PInf
    [] arg.t = "fin" -> IF arg.v = 0 THEN Fin(Unit) ELSE Pow(arg.v)

\* std::log10(arg) / std::log10(Const::Base()), for a base above 1:
\* log10 of a negative number is NaN, log10(0) is -inf, log10(1.0) is 0.
\* On a "pow" value Log returns the exponent, without the rounding of a real
\* log10; no other finite positive number reaches Log in this model.
Log(arg) ==
  CASE arg.t = "nan" -> NaN
    [] arg.t = "ninf" -> NaN
    [] arg.t = "pinf" -> PInf
    [] arg.t = "pow" -> Fin(arg.v)
    [] arg.t = "fin" /\ arg.v < 0 -> NaN
    [] arg.t = "fin" /\ arg.v = 0 -> NInf
    [] arg.t = "fin" /\ arg.v = Unit -> Fin(0)

\* assert(cond) ends the process iff the build keeps asserts and cond is false.
AssertFails(cond) == ~ndebug /\ ~cond

\* The two guards that open GetBinEdges: TRUE iff one of them aborts.
GetBinEdgesAborts(num, start, stop) ==
  \/ num <= 0 /\ AssertFails(num > 0)
  \/ FGreater(start, stop) /\ AssertFails(FLeq(start, stop))

StartUse(start, axis) == IF axis = "Log" THEN Log(start) ELSE start
StopUse(stop, axis) == IF axis = "Log" THEN Log(stop) ELSE stop

\* A step taken over num + 1 intervals instead of num.
StepOverNumPlusOne(start_use, stop_use, num) ==
  FDivN(FSub(stop_use, start_use), num + 1)

\* const double step = (stop_use - start_use) / num;
Step(start_use, stop_use, num) == FDivN(FSub(stop_use, start_use), num)

\* k >= 1 turns of the fill loop: push_back(edge); edge += step.
RECURSIVE FillRun(_, _, _)
FillRun(edge, step, k) ==
  IF k = 1 THEN <<edge>>
  ELSE <<edge>> \o FillRun(FAdd(edge, step), step, k - 1)

\* The fill loop and the push_back that follows it: n + 1 edges from edge on,
\* each the sum of the one before it and step.  The loop is evaluated in
\* runs of at most 16 turns, which keeps the evaluation shallow.
RECURSIVE FillBins(_, _, _)
FillBins(edge, step, n) ==
  IF n < 16 THEN FillRun(edge, step, n + 1)
  ELSE LET run == FillRun(edge, step, 16)
       IN  run \o FillBins(FAdd(run[16], step), step, n - 16)

\* The edge list GetBinEdges returns when neither guard aborts.
GetBinEdges(num, start, stop, axis) ==
  LET start_use == StartUse(start, axis)
      stop_use == StopUse(stop, axis)
      step == Step(start_use, stop_use, num)
      bins == FillBins(start_use, step, num)
  IN  IF axis = "Log"
      THEN [i \in DOMAIN bins |-> Exponentiate(bins[i])]
      ELSE bins

-----------------------------------------------------------------------------
(* PHCorrelatorBins.h: Binning *)

\* std::size_t is an unsigned integer of SizeBits bits; its arithmetic wraps.
\* (The width is reduced from 64 so that SizeMax is a number TLC can hold.)
SizeBits == 16
SizeMax == 2^SizeBits - 1

\* What an uninitialized double or std::size_t member may hold.
IndetDouble == {Fin(0), NaN}
IndetSize == {0, SizeMax}

\* The four data members of a Binning.
NewBinning(num, start, stop, bins) ==
  [m_start |-> start, m_stop |-> stop, m_num |-> num, m_bins |-> bins]

\* Binning() {}: m_bins is an empty vector, the other members are never set.
DefaultBinnings ==
  {NewBinning(n, s, t, <<>>) : n \in IndetSize, s \in IndetDouble, t \in IndetDouble}

\* Binning(num, start, stop, axis), when GetBinEdges returns.
BinningUniform(num, start, stop, axis) ==
  NewBinning(num, start, stop, GetBinEdges(num, start, stop, axis))

\* Binning(edges).  size() - 1 wraps for an empty list, and front() and back()
\* of an empty vector are undefined: they yield any value (or crash, see
\* CtorEdges).
BinningFromEdges(edges) ==
  IF edges = <<>>
  THEN {NewBinning(SizeMax, s, t, edges) : s \in IndetDouble, t \in IndetDouble}
  ELSE {NewBinning((Len(edges) - 1) % 2^SizeBits, edges[1], edges[Len(edges)], edges)}

-----------------------------------------------------------------------------
(* PHCorrelatorBins.h: Bins *)

\* Bins(): the three binnings the constructor seeds.  1e-5 is Base^-5 for
\* the base 10 of the "side" axis.
BinsCtor ==
  [name \in {"energy", "side", "logside"} |->
     CASE name = "energy" -> BinningUniform(202, Fin(0 - Unit), Fin(100 * Unit), "Norm")
       [] name = "side" -> BinningUniform(75, Pow(0 - 5 * Unit), Fin(Unit), "Log")
       [] name = "logside" -> BinningUniform(75, Fin(0 - 5 * Unit), Fin(0), "Norm")]

\* m_bins.count(name)
Count(name) == IF name \in DOMAIN m_bins THEN 1 ELSE 0

\* m_bins[name] = binning on a copy of the map
Put(map, name, binning) ==
  [x \in DOMAIN map \cup {name} |-> IF x = name THEN binning ELSE map[x]]

NoBinning == [none |-> TRUE]

\* The inputs of the registry's callers.
MaxNum == 1
MaxLen == 2
CtorDoubles == {Fin(0), Fin(Unit)}
Axes == {"Norm", "Log"}
CallNames == {"energy", "xi"}
EdgeLists == UNION {[1..n -> CtorDoubles] : n \in 0..MaxLen}

\* Every Binning value a caller can construct and hand to the registry.
Binnings ==
  DefaultBinnings
  \cup {BinningUniform(num, start, stop, axis) :
          <<num, start, stop, axis>> \in
            {x \in (0..MaxNum) \X CtorDoubles \X CtorDoubles \X Axes :
               ~GetBinEdgesAborts(x[1], x[2], x[3])}}
  \cup UNION {BinningFromEdges(edges) : edges \in EdgeLists}

Called(op, name, arg, ret) == [op |-> op, name |-> name, arg |-> arg, ret |-> ret]

\* Binning b;
CtorDefault ==
  /\ status = "running"
  /\ \E b \in DefaultBinnings : call' = Called("Binning()", "", NoBinning, b)
  /\ UNCHANGED <<m_bins, ndebug, status, calc, shards>>

\* Binning b(num, start, stop, axis);
CtorUniform ==
  /\ status = "running"
  /\ \E num \in 0..MaxNum, start \in CtorDoubles, stop \in CtorDoubles, axis \in Axes :
       IF GetBinEdgesAborts(num, start, stop)
       THEN /\ status' = "aborted"
            /\ call' = Called("Binning(num,start,stop,axis)", axis, NoBinning, NoBinning)
       ELSE /\ status' = status
            /\ call' = Called("Binning(num,start,stop,axis)", axis, NoBinning,
                               BinningUniform(num, start, stop, axis))
  /\ UNCHANGED <<m_bins, ndebug, calc, shards>>

\* Binning b(edges);
CtorEdges ==
  /\ status = "running"
  /\ \E edges \in EdgeLists :
       \/ /\ \E b \in BinningFromEdges(edges) :
               call' = Called("Binning(edges)", "", NoBinning, b)
          /\ status' = status
       \/ /\ edges = <<>>
          /\ call' = Called("Binning(edges)", "", NoBinning, NoBinning)
          /\ status' = "crashed"
  /\ UNCHANGED <<m_bins, ndebug, calc, shards>>

\* bins.Add(name, binning)
Add ==
  /\ status = "running"
  /\ \E name \in CallNames, binning \in Binnings :
       IF Count(name) >= 1 /\ AssertFails(Count(name) = 0)
       THEN /\ status' = "aborted"
            /\ call' = Called("Add", name, binning, NoBinning)
            /\ m_bins' = m_bins
       ELSE /\ m_bins' = Put(m_bins, name, binning)
            /\ call' = Called("Add", name, binning, NoBinning)
            /\ status' = status
  /\ UNCHANGED <<ndebug, calc, shards>>

\* bins.Set(variable, binning)
Set ==
  /\ status = "running"
  /\ \E variable \in CallNames, binning \in Binnings :
       IF Count(variable) = 0 /\ AssertFails(Count(variable) >= 1)
       THEN /\ status' = "aborted"
            /\ call' = Called("Set", variable, binning, NoBinning)
            /\ m_bins' = m_bins
       ELSE /\ m_bins' = Put(m_bins, variable, binning)
            /\ call' = Called("Set", variable, binning, NoBinning)
            /\ status' = status
  /\ UNCHANGED <<ndebug, calc, shards>>

\* bins.Get(variable).  The assert states the condition that guards it, so it
\* never fails; std::map::operator[] then inserts a default-constructed
\* Binning under an absent key and returns a copy of it.
Get ==
  /\ status = "running"
  /\ \E variable \in CallNames :
       IF Count(variable) = 0 /\ AssertFails(Count(variable) = 0)
       THEN /\ status' = "aborted"
            /\ call' = Called("Get", variable, NoBinning, NoBinning)
            /\ m_bins' = m_bins
       ELSE /\ \E b \in (IF variable \in DOMAIN m_bins
                          THEN {m_bins[variable]} ELSE DefaultBinnings) :
                 /\ m_bins' = Put(m_bins, variable, b)
                 /\ call' = Called("Get", variable, NoBinning, b)
            /\ status' = status
  /\ UNCHANGED <<ndebug, calc, shards>>

\* HistManager(): no sub-binning and no histogram family is switched on, and
\* no histogram holds an entry.  hists is the bag of the (index, content)
\* entries filled so far.
HistManager ==
  [do_ptjet_bins |-> FALSE, do_cfjet_bins |-> FALSE, do_charge_bins |-> FALSE,
   do_spin_bins |-> FALSE, do_eec_hists |-> FALSE, hists |-> EmptyBag]

\* Calculator(weight, power)
CalculatorWith(weight, power) ==
  [m_weight_power |-> power, m_weight_type |-> weight,
   m_ptjet_bins |-> <<>>, m_cfjet_bins |-> <<>>, m_chrg_bins |-> <<>>,
   m_manager |-> HistManager]

\* Calculator(): power 1.0, weight Type::Pt
Calculator == CalculatorWith("Pt", Fin(Unit))

Init ==
  /\ m_bins = BinsCtor
  /\ ndebug \in BOOLEAN
  /\ status = "running"
  /\ calc = Calculator
  /\ shards = <<>>
  /\ call = Called("Bins()", "", NoBinning, NoBinning)

Next == CtorDefault \/ CtorUniform \/ CtorEdges \/ Add \/ Set \/ Get

Spec == Init /\ [][Next]_vars

-----------------------------------------------------------------------------
(* GetBinEdges called on its own, over a wider range of inputs *)

MaxEdgeNum == 3
MaxQuanta == 3

\* Linear-mode inputs: the numbers within MaxQuanta grains of zero.
LinDoubles == {Fin(v) : v \in (0 - MaxQuanta)..MaxQuanta}

\* Logarithmic-mode inputs: -1.0, 0.0, 1.0 and powers of the base around 1.0.
LogDoubles ==
  {Fin(0 - Unit), Fin(0), Fin(Unit)}
  \cup {Pow(q) : q \in ((0 - MaxQuanta)..MaxQuanta) \ {0}}

EdgesCalled(num, start, stop, axis, returned, ret) ==
  [op |-> "GetBinEdges", num |-> num, start |-> start, stop |-> stop,
   axis |-> axis, returned |-> returned, ret |-> ret]

\* Tools::GetBinEdges(num, start, stop, axis)
CallGetBinEdges ==
  /\ status = "running"
  /\ \E num \in 0..MaxEdgeNum, axis \in Axes :
       \E start \in (IF axis = "Log" THEN LogDoubles ELSE LinDoubles),
          stop \in (IF axis = "Log" THEN LogDoubles ELSE LinDoubles) :
         IF GetBinEdgesAborts(num, start, stop)
         THEN /\ status' = "aborted"
              /\ call' = EdgesCalled(num, start, stop, axis, FALSE, <<>>)
         ELSE /\ status' = status
              /\ call' = EdgesCalled(num, start, stop, axis, TRUE,
                                     GetBinEdges(num, start, stop, axis))
  /\ UNCHANGED <<m_bins, ndebug, calc, shards>>

NextEdges == CallGetBinEdges

SpecEdges == Init /\ [][NextEdges]_vars

-----------------------------------------------------------------------------
(* PHCorrelatorAnaTools.h: the angle wrappers *)

\* An angle is an integer number of grains of pi/8: TMath::Pi() is 8 grains.
Pi == 8
PiOver2 == Pi \div 2
TwoPi == 2 * Pi

GetWrappedHadronAngle(angle) ==
  IF angle > PiOver2 THEN angle - Pi ELSE angle

GetWrappedDoubledHadronAngle(angle) ==
  LET piDiv2 == PiOver2
      pi3Div2 == 3 * PiOver2
      minPiDiv2 == (0 - 1) * PiOver2
      minPi3Div2 == (0 - 3) * PiOver2
      doPiSub == angle > piDiv2 /\ angle <= pi3Div2
      doTwoPiSub == angle > pi3Div2
      doPiAdd == angle < minPiDiv2 /\ angle >= minPi3Div2
      doTwoPiAdd == angle < minPi3Div2
  IN  IF doPiSub THEN angle - Pi
      ELSE IF doTwoPiSub THEN angle - TwoPi
      ELSE IF doPiAdd THEN angle + Pi
      ELSE IF doTwoPiAdd THEN angle + TwoPi
      ELSE angle

GetWrappedSpinHadronAngle(angle) ==
  LET doPiSub == angle > Pi
      doPiAdd == angle < 0
  IN  IF doPiSub THEN angle - Pi
      ELSE IF doPiAdd THEN angle + Pi
      ELSE angle

\* The swept inputs: every grain of [-MaxPi * pi, MaxPi * pi].
MaxPi == 10
Angles == (0 - MaxPi * Pi)..(MaxPi * Pi)

AngleCalled(op, angle, ret) == [op |-> op, angle |-> angle, ret |-> ret]

CallGetWrappedHadronAngle ==
  /\ status = "running"
  /\ \E angle \in Angles :
       call' = AngleCalled("GetWrappedHadronAngle", angle, GetWrappedHadronAngle(angle))
  /\ UNCHANGED <<m_bins, ndebug, status, calc, shards>>

CallGetWrappedDoubledHadronAngle ==
  /\ status = "running"
  /\ \E angle \in Angles :
       call' = AngleCalled("GetWrappedDoubledHadronAngle", angle,
                           GetWrappedDoubledHadronAngle(angle))
  /\ UNCHANGED <<m_bins, ndebug, status, calc, shards>>

CallGetWrappedSpinHadronAngle ==
  /\ status = "running"
  /\ \E angle \in Angles :
       call' = AngleCalled("GetWrappedSpinHadronAngle", angle,
                           GetWrappedSpinHadronAngle(angle))
  /\ UNCHANGED <<m_bins, ndebug, status, calc, shards>>

NextAngles ==
  \/ CallGetWrappedHadronAngle
  \/ CallGetWrappedDoubledHadronAngle
  \/ CallGetWrappedSpinHadronAngle

SpecAngles == Init /\ [][NextAngles]_vars

-----------------------------------------------------------------------------
(* Properties of the registry (checked under Spec) *)

\* C1: Get(name) with a name that is not registered fails with an
\* unknown-name error; it never returns a default-constructed Binning.
C1_GetAbsentFails ==
  [][(call'.op = "Get" /\ call'.name \notin DOMAIN m_bins)
       => status' # "running"]_vars

\* C2: Add(name, b) with a registered name fails and leaves the stored
\* binning as it was; with an absent name it stores b under name, so that a
\* following Get(name) returns b, and changes no other entry.
C2_AddContract ==
  [][call'.op = "Add"
       => IF call'.name \in DOMAIN m_bins
          THEN status' = "aborted" /\ m_bins' = m_bins
          ELSE status' = "running" /\ m_bins' = Put(m_bins, call'.name, call'.arg)]_vars

\* C3: Set(name, b) with an absent name fails and creates no entry for it;
\* with a registered name it replaces that binning by b and changes no other
\* entry.
C3_SetContract ==
  [][call'.op = "Set"
       => IF call'.name \notin DOMAIN m_bins
          THEN status' = "aborted" /\ m_bins' = m_bins
          ELSE status' = "running" /\ m_bins' = Put(m_bins, call'.name, call'.arg)]_vars

\* Each edge is strictly greater than the one before it.
StrictlyIncreasing(e) == \A i \in 1..(Len(e) - 1) : FLess(e[i], e[i + 1])

\* Each edge is greater than or equal to the one before it.
NonDecreasing(e) == \A i \in 1..(Len(e) - 1) : FLeq(e[i], e[i + 1])

\* The Binning invariant of the data model.
ValidBinning(b) ==
  /\ b.m_num > 0
  /\ FLess(b.m_start, b.m_stop)
  /\ Len(b.m_bins) = b.m_num + 1
  /\ StrictlyIncreasing(b.m_bins)

\* C7: every Binning that a constructor returns or that the registry stores
\* has count > 0, start < stop and count + 1 strictly increasing edges, and
\* one built from an edge list has count = len(edges) - 1, start = first
\* edge, stop = last edge.
C7_BinningInvariant ==
  /\ \A name \in DOMAIN m_bins : ValidBinning(m_bins[name])
  /\ (call.op \in {"Binning()", "Binning(num,start,stop,axis)", "Binning(edges)"}
        /\ status = "running")
       => ValidBinning(call.ret)
  /\ (call.op = "Binning(edges)" /\ status = "running")
       => /\ call.ret.m_num = Len(call.ret.m_bins) - 1
          /\ call.ret.m_start = call.ret.m_bins[1]
          /\ call.ret.m_stop = call.ret.m_bins[Len(call.ret.m_bins)]

\* C21: Get is read-only: whatever the registry holds and whatever name is
\* asked for, registered or not, the registered names and the binning stored
\* under each of them are the same after the call as before it, so that Get
\* calls alone never change what a later Add, Set or Get observes.
C21_GetReadOnly ==
  [][call'.op = "Get" => m_bins' = m_bins]_vars

-----------------------------------------------------------------------------
(* Properties of GetBinEdges (checked under SpecEdges) *)

\* A linear-mode call with count > 0 and start <= stop that returned.
LinearCall ==
  /\ call.op = "GetBinEdges"
  /\ call.returned
  /\ call.axis = "Norm"
  /\ call.num > 0
  /\ FLeq(call.start, call.stop)

\* C4 as claimed: for count > 0 and start <= stop, linear mode returns
\* count + 1 edges, the first equal to start, the last equal to stop, each
\* strictly greater than the one before it.
C4_LinearEdgesStrict ==
  LinearCall
    => /\ Len(call.ret) = call.num + 1
       /\ call.ret[1] = call.start
       /\ call.ret[call.num + 1] = call.stop
       /\ StrictlyIncreasing(call.ret)

\* The quotient (stop - start) / count needs no rounding.
ExactStep == (call.stop.v - call.start.v) % call.num = 0

\* C4 as amended: for count > 0 and start <= stop, linear mode returns
\* count + 1 edges, the first equal to start, each greater than or equal to
\* the one before it; when start = stop every edge equals start; when
\* start < stop and the step is computed without rounding, the edges are
\* strictly increasing and the last equals stop.
C4_LinearEdges ==
  LinearCall
    => /\ Len(call.ret) = call.num + 1
       /\ call.ret[1] = call.start
       /\ NonDecreasing(call.ret)
       /\ call.start = call.stop
            => \A i \in 1..(call.num + 1) : call.ret[i] = call.start
       /\ (FLess(call.start, call.stop) /\ ExactStep)
            => /\ StrictlyIncreasing(call.ret)
               /\ call.ret[call.num + 1] = call.stop

\* A linear call with several bins, start < stop and an exact step.
C4_Witness ==
  /\ LinearCall
  /\ call.num > 1
  /\ FLess(call.start, call.stop)
  /\ ExactStep
  /\ call.ret[call.num + 1] = call.stop

\* C5: GetBinEdges fails, returning no edge list, whenever count = 0 or
\* start > stop, in either mode.
C5_InvalidRangeFails ==
  (call.op = "GetBinEdges" /\ (call.num = 0 \/ FGreater(call.start, call.stop)))
    => (~call.returned /\ status = "aborted")

\* C6: in logarithmic mode with count > 0 and start <= stop, GetBinEdges
\* fails whenever start <= 0; it returns no edge list computed from the
\* logarithm of a non-positive start.
C6_LogDomainFails ==
  (/\ call.op = "GetBinEdges"
   /\ call.axis = "Log"
   /\ call.num > 0
   /\ FLeq(call.start, call.stop)
   /\ FLeq(call.start, Fin(0)))
    => (~call.returned /\ status # "running")

-----------------------------------------------------------------------------
(* Properties of the angle wrappers (checked under SpecAngles) *)

\* C8: GetWrappedDoubledHadronAngle applies at most one of its four
\* adjustments, the one of the range the angle lies in, and its result lies
\* in the open interval (-pi/2, pi/2) for every input.
C8_DoubledAngleRange ==
  call.op = "GetWrappedDoubledHadronAngle"
    => /\ call.ret - call.angle =
            (IF call.angle > PiOver2 /\ call.angle <= 3 * PiOver2 THEN 0 - Pi
             ELSE IF call.angle > 3 * PiOver2 THEN 0 - TwoPi
             ELSE IF call.angle < 0 - PiOver2 /\ call.angle >= 0 - 3 * PiOver2 THEN Pi
             ELSE IF call.angle < 0 - 3 * PiOver2 THEN TwoPi
             ELSE 0)
       /\ call.ret > 0 - PiOver2
       /\ call.ret < PiOver2

\* C9: GetWrappedSpinHadronAngle subtracts pi when angle > pi, adds pi when
\* angle < 0, leaves the angle unchanged otherwise, and its result lies in
\* [0, pi] for every input.
C9_SpinAngleRange ==
  call.op = "GetWrappedSpinHadronAngle"
    => /\ call.ret = (IF call.angle > Pi THEN call.angle - Pi
                      ELSE IF call.angle < 0 THEN call.angle + Pi
                      ELSE call.angle)
       /\ call.ret >= 0
       /\ call.ret <= Pi

\* C10: for every angle in the open interval (0, pi), GetWrappedHadronAngle
\* subtracts pi exactly when angle > pi/2 and its result lies in the open
\* interval (-pi/2, pi/2).
C10_HadronAngleRange ==
  (call.op = "GetWrappedHadronAngle" /\ call.angle > 0 /\ call.angle < Pi)
    => /\ call.ret = (IF call.angle > PiOver2 THEN call.angle - Pi ELSE call.angle)
       /\ call.ret > 0 - PiOver2
       /\ call.ret < PiOver2

\* C11: over every input in [-10 pi, 10 pi], each of the three wrappers is
\* idempotent, f(f(x)) = f(x), and its result lies in the wrapper's documented
\* range: (-pi/2, pi/2) for GetWrappedHadronAngle and
\* GetWrappedDoubledHadronAngle, [0, pi] for GetWrappedSpinHadronAngle.
C11_WrappersIdempotent ==
  /\ call.op = "GetWrappedHadronAngle"
       => /\ GetWrappedHadronAngle(call.ret) = call.ret
          /\ call.ret > 0 - PiOver2
          /\ call.ret < PiOver2
  /\ call.op = "GetWrappedDoubledHadronAngle"
       => /\ GetWrappedDoubledHadronAngle(call.ret) = call.ret
          /\ call.ret > 0 - PiOver2
          /\ call.ret < PiOver2
  /\ call.op = "GetWrappedSpinHadronAngle"
       => /\ GetWrappedSpinHadronAngle(call.ret) = call.ret
          /\ call.ret >= 0
          /\ call.ret <= Pi

-----------------------------------------------------------------------------
(* PHCorrelatorCalculator.h: configuration and GetHistIndices *)

\* A jet's pt, cf and charge and the edges of a bin are floats; they are
\* modelled by integers, which the comparisons of the lookup treat alike.
\* A spin pattern is one of the six tags of Type::Pattern or "Other", any
\* other integer.  A spin index is the name of its HistManager enumerator.

\* HistManager::DoPtJetBins(n), DoCFJetBins(n), DoChargeBins(n): switch the
\* sub-binning on.
DoPtJetBins(m, n) == [m EXCEPT !.do_ptjet_bins = TRUE]
DoCFJetBins(m, n) == [m EXCEPT !.do_cfjet_bins = TRUE]
DoChargeBins(m, n) == [m EXCEPT !.do_charge_bins = TRUE]

\* HistManager::DoSpinBins(spin)
DoSpinBins(m, spin) == [m EXCEPT !.do_spin_bins = spin]

\* HistManager::SetDoEECHists(do_eec)
SetDoEECHists(m, do_eec) == [m EXCEPT !.do_eec_hists = do_eec]

\* The setters, as functions from the Calculator before to the Calculator
\* after.
SetWeightPower(c, power) == [c EXCEPT !.m_weight_power = power]
SetWeightType(c, weight) == [c EXCEPT !.m_weight_type = weight]

SetPtJetBins(c, bins) ==
  [c EXCEPT !.m_ptjet_bins = bins, !.m_manager = DoPtJetBins(@, Len(bins))]

SetCFJetBins(c, bins) ==
  [c EXCEPT !.m_cfjet_bins = bins, !.m_manager = DoCFJetBins(@, Len(bins))]

SetChargeBins(c, bins) ==
  [c EXCEPT !.m_chrg_bins = bins, !.m_manager = DoChargeBins(@, Len(bins))]

SetDoSpinBins(c, spin) == [c EXCEPT !.m_manager = DoSpinBins(@, spin)]

\* Calculator::Init(do_eec): GenerateHists books the histograms, which hold
\* no entry.
CalculatorInit(c, do_eec) == [c EXCEPT !.m_manager = SetDoEECHists(@, do_eec)]

HistIndex(pt, cf, chrg, spin) == [pt |-> pt, cf |-> cf, chrg |-> chrg, spin |-> spin]

\* A lookup loop that stops at the first range that holds the value.
RECURSIVE BinLoopWithBreak(_, _, _, _)
BinLoopWithBreak(bins, value, i, index) ==
  IF i >= Len(bins) THEN index
  ELSE IF value >= bins[i + 1][1] /\ value < bins[i + 1][2] THEN i
  ELSE BinLoopWithBreak(bins, value, i + 1, index)

\* A lookup loop whose ranges exclude their low edge.
RECURSIVE BinLoopOpenLow(_, _, _, _)
BinLoopOpenLow(bins, value, i, index) ==
  IF i >= Len(bins) THEN index
  ELSE BinLoopOpenLow(bins, value, i + 1,
         IF value > bins[i + 1][1] /\ value < bins[i + 1][2] THEN i ELSE index)

\* for (i = 0; i < bins.size(); ++i)
\*   if ((value >= bins[i].first) && (value < bins[i].second)) index = i;
\* from ordinal i on, index being the ordinal found so far.  The loop body
\* has no break: it runs over every range.
RECURSIVE BinLoop(_, _, _, _)
BinLoop(bins, value, i, index) ==
  IF i >= Len(bins) THEN index
  ELSE BinLoop(bins, value, i + 1,
         IF value >= bins[i + 1][1] /\ value < bins[i + 1][2] THEN i ELSE index)

\* The pt, cf and charge coordinates of base_index, each 0 unless its
\* sub-binning is on and its loop finds a range.
PtIndex(c, jet) ==
  IF c.m_manager.do_ptjet_bins THEN BinLoop(c.m_ptjet_bins, jet.pt, 0, 0) ELSE 0

CfIndexOpenLow(c, jet) ==
  IF c.m_manager.do_cfjet_bins THEN BinLoopOpenLow(c.m_cfjet_bins, jet.cf, 0, 0) ELSE 0

CfIndex(c, jet) ==
  IF c.m_manager.do_cfjet_bins THEN BinLoop(c.m_cfjet_bins, jet.cf, 0, 0) ELSE 0

ChrgIndex(c, jet) ==
  IF c.m_manager.do_charge_bins THEN BinLoop(c.m_chrg_bins, jet.charge, 0, 0) ELSE 0

BaseIndex(c, jet) == HistIndex(PtIndex(c, jet), CfIndex(c, jet), ChrgIndex(c, jet), 0)

\* The switch with the break of case Type::PABU left out.
SpinSwitchFallThrough(pattern) ==
  CASE pattern = "PPBUYU" -> <<"BU", "YU", "BUYU">>
    [] pattern = "PPBDYU" -> <<"BD", "YU", "BDYU">>
    [] pattern = "PPBUYD" -> <<"BU", "YD", "BUYD">>
    [] pattern = "PPBDYD" -> <<"BD", "YD", "BDYD">>
    [] pattern = "PABU" -> <<"BU", "BD">>
    [] pattern = "PABD" -> <<"BD">>
    [] OTHER -> <<>>

\* switch (jet.pattern): the spin indices pushed after HistManager::Int
SpinSwitch(pattern) ==
  CASE pattern = "PPBUYU" -> <<"BU", "YU", "BUYU">>
    [] pattern = "PPBDYU" -> <<"BD", "YU", "BDYU">>
    [] pattern = "PPBUYD" -> <<"BU", "YD", "BUYD">>
    [] pattern = "PPBDYD" -> <<"BD", "YD", "BDYD">>
    [] pattern = "PABU" -> <<"BU">>
    [] pattern = "PABD" -> <<"BD">>
    [] OTHER -> <<>>

\* spin_indices
SpinIndices(c, jet) ==
  <<"Int">> \o (IF c.m_manager.do_spin_bins THEN SpinSwitch(jet.pattern) ELSE <<>>)

\* The four indices in the order binned charge first, binned pt second.
IndexBlockChargeFirst(c, base_index, spin) ==
  <<HistIndex(Len(c.m_ptjet_bins), base_index.cf, Len(c.m_chrg_bins), spin),
    HistIndex(Len(c.m_ptjet_bins), base_index.cf, base_index.chrg, spin),
    HistIndex(base_index.pt, base_index.cf, Len(c.m_chrg_bins), spin),
    HistIndex(base_index.pt, base_index.cf, base_index.chrg, spin)>>

\* The four indices one pass of the assembly loop pushes.
IndexBlock(c, base_index, spin) ==
  <<HistIndex(Len(c.m_ptjet_bins), base_index.cf, Len(c.m_chrg_bins), spin),
    HistIndex(base_index.pt, base_index.cf, Len(c.m_chrg_bins), spin),
    HistIndex(Len(c.m_ptjet_bins), base_index.cf, base_index.chrg, spin),
    HistIndex(base_index.pt, base_index.cf, base_index.chrg, spin)>>

\* for (isp = 0; isp < spin_indices.size(); ++isp) ..., from isp on
RECURSIVE AssembleIndices(_, _, _, _, _)
AssembleIndices(c, base_index, spin_indices, isp, indices) ==
  IF isp >= Len(spin_indices) THEN indices
  ELSE AssembleIndices(c, base_index, spin_indices, isp + 1,
         indices \o IndexBlock(c, base_index, spin_indices[isp + 1]))

GetHistIndices(c, jet) ==
  AssembleIndices(c, BaseIndex(c, jet), SpinIndices(c, jet), 0, <<>>)

-----------------------------------------------------------------------------
(* GetHistIndices called on a configured Calculator *)

\* The jets: every pt, cf and charge in 0..MaxVal under every pattern.
MaxVal == 2
JetValues == 0..MaxVal
Patterns == {"PPBUYU", "PPBDYU", "PPBUYD", "PPBDYD", "PABU", "PABD", "Other"}
Jets == [pt : JetValues, cf : JetValues, charge : JetValues, pattern : Patterns]

\* The ranges of a bin list: two ranges that overlap and end at the largest
\* jet value, so that 0 lies in the first only, 1 in both and MaxVal, the
\* high edge, in neither.
Ranges == {<<0, MaxVal>>, <<1, MaxVal>>}

\* The bin lists handed to a setter: up to as many ranges as there are
\* distinct ones, in any order, repetitions included.
MaxBins == Cardinality(Ranges)
BinLists == UNION {[1..n -> Ranges] : n \in 0..MaxBins}

\* What a caller does about one axis: leave it alone or call its setter.
AxisChoices == {<<FALSE, <<>>>>} \cup {<<TRUE, bins>> : bins \in BinLists}

\* The Calculator after the setter calls chosen for the axes and
\* SetDoSpinBins(spin).
Configure(pt, cf, ch, spin) ==
  LET c1 == IF pt[1] THEN SetPtJetBins(Calculator, pt[2]) ELSE Calculator
      c2 == IF cf[1] THEN SetCFJetBins(c1, cf[2]) ELSE c1
      c3 == IF ch[1] THEN SetChargeBins(c2, ch[2]) ELSE c2
  IN  SetDoSpinBins(c3, spin)

Configured ==
  {Configure(pt, cf, ch, spin) :
     pt \in AxisChoices, cf \in AxisChoices, ch \in AxisChoices, spin \in BOOLEAN}

IndexCalled(jet, returned, base_index, ret) ==
  [op |-> "GetHistIndices", jet |-> jet, returned |-> returned,
   base_index |-> base_index, ret |-> ret]

\* A configured Calculator about to look up the indices of a jet.  The
\* Calculator holds no assert, so one build stands for both.
InitIndex ==
  /\ m_bins = BinsCtor
  /\ ndebug = FALSE
  /\ status = "running"
  /\ calc \in Configured
  /\ shards = <<>>
  /\ call \in {IndexCalled(jet, FALSE, HistIndex(0, 0, 0, 0), <<>>) : jet \in Jets}

\* indices = GetHistIndices(jet)
CallGetHistIndices ==
  /\ status = "running"
  /\ call.op = "GetHistIndices"
  /\ ~call.returned
  /\ call' = IndexCalled(call.jet, TRUE, BaseIndex(calc, call.jet),
                         GetHistIndices(calc, call.jet))
  /\ UNCHANGED <<m_bins, ndebug, status, calc, shards>>

NextIndex == CallGetHistIndices

SpecIndex == InitIndex /\ [][NextIndex]_vars

\* The states in which GetHistIndices has returned.
IndexReturned == call.op = "GetHistIndices" /\ call.returned

\* The ordinals of the ranges of bins that hold value.
Matching(bins, value) ==
  {i \in 0..(Len(bins) - 1) : value >= bins[i + 1][1] /\ value < bins[i + 1][2]}

\* C12: GetHistIndices returns 4 indices when spin binning is off, whatever
\* the pattern, or the pattern is not recognized; 8 when spin binning is on
\* and the pattern is PABU or PABD; 16 when spin binning is on and the
\* pattern is one of the four dual-beam patterns; never another number.
C12_IndexCount ==
  IndexReturned
    => Len(call.ret) =
         (IF ~calc.m_manager.do_spin_bins THEN 4
          ELSE IF call.jet.pattern \in {"PABU", "PABD"} THEN 8
          ELSE IF call.jet.pattern \in {"PPBUYU", "PPBDYU", "PPBUYD", "PPBDYD"} THEN 16
          ELSE 4)

\* Spin binning on and a list of 8 entries returned for a single-beam
\* pattern.
C12_Witness ==
  /\ IndexReturned
  /\ calc.m_manager.do_spin_bins
  /\ call.jet.pattern = "PABD"
  /\ Len(call.ret) = 8

\* The spin state a spin index stands for.
SpinState(spin) ==
  CASE spin = "Int" -> "integrated"
    [] spin \in {"BU", "BD"} -> "blue"
    [] spin \in {"YU", "YD"} -> "yellow"
    [] spin \in {"BUYU", "BDYU", "BUYD", "BDYD"} -> "both"

\* The order of the spin states' blocks.
BlockOrder == <<"integrated", "blue", "yellow", "both">>

\* C13: the returned list is made of blocks of 4, one per spin state, each
\* in the order [pt and charge integrated, pt binned and charge integrated,
\* pt integrated and charge binned, pt and charge binned]; the blocks come
\* in the order [integrated, blue, yellow, both], so positions 0-3 are
\* spin-integrated, 4-7 blue, 8-11 yellow and 12-15 both.
C13_BlockOrder ==
  IndexReturned
    => /\ Len(call.ret) % 4 = 0
       /\ Len(call.ret) \div 4 <= Len(BlockOrder)
       /\ \A k \in 0..((Len(call.ret) \div 4) - 1) :
            LET at(i) == call.ret[4 * k + i]
                ptInt == Len(calc.m_ptjet_bins)
                chInt == Len(calc.m_chrg_bins)
                ptBin == call.base_index.pt
                chBin == call.base_index.chrg
            IN  /\ \A i \in 1..4 : SpinState(at(i).spin) = BlockOrder[k + 1]
                /\ \A i \in 1..4 : at(i).spin = at(1).spin
                /\ at(1).pt = ptInt /\ at(1).chrg = chInt
                /\ at(2).pt = ptBin /\ at(2).chrg = chInt
                /\ at(3).pt = ptInt /\ at(3).chrg = chBin
                /\ at(4).pt = ptBin /\ at(4).chrg = chBin

\* Sixteen indices whose binned pt and charge coordinates differ from the
\* integrated ones and from each other.
C13_Witness ==
  /\ IndexReturned
  /\ Len(call.ret) = 16
  /\ call.base_index.pt # Len(calc.m_ptjet_bins)
  /\ call.base_index.chrg # Len(calc.m_chrg_bins)
  /\ call.base_index.pt # call.base_index.chrg
  /\ Len(calc.m_ptjet_bins) # Len(calc.m_chrg_bins)
  /\ call.ret[16].spin = "BDYU"

-----------------------------------------------------------------------------
(* PHCorrelatorCalculator.h: CalcEEC *)

\* A TVector3 is a triple of integers.  A constituent is modelled by the
\* 3-momentum GetCstLorentz gives it.  Only whether a cross product is the
\* null vector decides the results below, and scaling a factor (Unit(), the
\* 0.5 of RC) does not change that, so no vector is normalised.
Cross(a, b) ==
  <<a[2] * b[3] - a[3] * b[2], a[3] * b[1] - a[1] * b[3], a[1] * b[2] - a[2] * b[1]>>

VAdd(a, b) == <<a[1] + b[1], a[2] + b[2], a[3] + b[3]>>
VSub(a, b) == <<a[1] - b[1], a[2] - b[2], a[3] - b[3]>>

\* v.Mag() == 0.0
ZeroMag(v) == v = <<0, 0, 0>>

\* Const::BlueBeam(), Const::YellowBeam(): along +z and -z.
BlueBeam == <<0, 0, 1>>
YellowBeam == <<0, 0, 0 - 1>>

\* Const::SpinUp(), Const::SpinDown(), Const::SpinNull(): along +y, along
\* -y, and the null vector.
SpinUp == <<0, 1, 0>>
SpinDown == <<0, 0 - 1, 0>>
SpinNull == <<0, 0, 0>>

\* Tools::GetBeams()
GetBeams == <<BlueBeam, YellowBeam>>

\* GetSpins with the pair made as (yellow, blue).
GetSpinsYellowFirst(pattern) ==
  CASE pattern = "PPBUYU" -> <<SpinUp, SpinUp>>
    [] pattern = "PPBDYU" -> <<SpinUp, SpinDown>>
    [] pattern = "PPBUYD" -> <<SpinDown, SpinUp>>
    [] pattern = "PPBDYD" -> <<SpinDown, SpinDown>>
    [] pattern = "PABU" -> <<SpinNull, SpinUp>>
    [] pattern = "PABD" -> <<SpinNull, SpinDown>>
    [] OTHER -> <<SpinNull, SpinNull>>

\* Tools::GetSpins(pattern): <<blue, yellow>>
GetSpins(pattern) ==
  CASE pattern = "PPBUYU" -> <<SpinUp, SpinUp>>
    [] pattern = "PPBDYU" -> <<SpinDown, SpinUp>>
    [] pattern = "PPBUYD" -> <<SpinUp, SpinDown>>
    [] pattern = "PPBDYD" -> <<SpinDown, SpinDown>>
    [] pattern = "PABU" -> <<SpinUp, SpinNull>>
    [] pattern = "PABD" -> <<SpinDown, SpinNull>>
    [] OTHER -> <<SpinNull, SpinNull>>

\* The angle of the plane (axis, u) to the plane (axis, w), in [0, 2 pi):
\*   c = (axis x u * (1 / |axis x u|)) . (axis x w * (1 / |axis x w|))
\*   s = (u x w) . axis * (1 / (|axis x u| * |axis x w|))
\*   theta = s > 0 ? acos(c) : -acos(c), folded once by 2 pi.
\* A zero magnitude makes 1.0 / 0.0 infinite and the products with the null
\* cross product NaN, so c and s are NaN; s > 0.0 is then false, -acos(NaN)
\* is NaN and both folds compare false.  Otherwise the angle is a finite
\* number, kept as the expression that defines it.
PlaneAngle(axis, u, w) ==
  IF ZeroMag(Cross(axis, u)) \/ ZeroMag(Cross(axis, w))
  THEN NaN
  ELSE [t |-> "angle", axis |-> axis, u |-> u, w |-> w]

\* a - b folded once by 2 pi: NaN as soon as one of them is.
FoldedDifference(a, b) ==
  IF a = NaN \/ b = NaN THEN NaN ELSE [t |-> "difference", a |-> a, b |-> b]

\* PC, RC, ThetaSB_RC and ThetaSA_RC of a constituent pair.
EECAngles(jet, csts) ==
  LET PC == VAdd(csts[1], csts[2])
      RC == VSub(csts[1], csts[2])
      PB == GetBeams[1]
      PA == GetBeams[2]
      SB == GetSpins(jet.pattern)[1]
      SA == GetSpins(jet.pattern)[2]
      ThetaSB == PlaneAngle(PB, PC, SB)
      ThetaSA == PlaneAngle(PA, PC, SA)
      ThetaRC == PlaneAngle(PC, PA, RC)
  IN  [ThetaSB_RC |-> FoldedDifference(ThetaSB, ThetaRC),
       ThetaSA_RC |-> FoldedDifference(ThetaSA, ThetaRC)]

\* GetCstWeight(cst, jet): (numer / denom)^m_weight_power of the quantity
\* m_weight_type names, kept as the expression that defines it.
GetCstWeight(c, cst, jet) ==
  [t |-> "weight", type |-> c.m_weight_type, power |-> c.m_weight_power,
   cst |-> cst, jet |-> jet.pt]

\* Type::HistContent(weight, dist): the other fields keep their defaults.
HistContent(weight, dist) ==
  [weight |-> weight, dist |-> dist, phiCollB |-> "default", phiCollY |-> "default",
   phiBoerB |-> "default", phiBoerY |-> "default", spinB |-> "default",
   spinY |-> "default", pattern |-> "default"]

\* content, as CalcEEC collects it.
EECContent(c, jet, csts, evt_weight) ==
  LET weight == <<GetCstWeight(c, csts[1], jet), GetCstWeight(c, csts[2], jet), evt_weight>>
      dist == [t |-> "dist", csts |-> csts]
      content == HistContent(weight, dist)
      angles == EECAngles(jet, csts)
  IN  IF c.m_manager.do_spin_bins
      THEN [content EXCEPT !.phiCollB = angles.ThetaSB_RC,
                           !.phiCollY = angles.ThetaSA_RC,
                           !.phiBoerB = Fin(0),
                           !.phiBoerY = Fin(0),
                           !.spinB = GetSpins(jet.pattern)[1][2],
                           !.spinY = GetSpins(jet.pattern)[2][2],
                           !.pattern = jet.pattern]
      ELSE content

\* Const::NBinsPerSpin(), Const::BlueSpinStart(), Const::YellSpinStart()
NBinsPerSpin == 4
BlueSpinStart == 4
YellSpinStart == 8

\* The values idx takes in for (idx = from; idx < to; ++idx).
Positions(from, to) == [i \in 1..(to - from) |-> from + i - 1]

\* The fill loops without the test of indices.size() against
\* Const::BlueSpinStart().
FillPositionsNoSizeTest(do_spin, size) ==
  Positions(0, NBinsPerSpin)
  \o (IF do_spin
      THEN Positions(BlueSpinStart, YellSpinStart)
           \o (IF size > YellSpinStart THEN Positions(YellSpinStart, size) ELSE <<>>)
      ELSE <<>>)

\* The positions of indices the three fill loops read, in the order they
\* read them, for a list of the given size.
FillPositions(do_spin, size) ==
  Positions(0, NBinsPerSpin)
  \o (IF do_spin /\ size > BlueSpinStart
      THEN Positions(BlueSpinStart, YellSpinStart)
           \o (IF size > YellSpinStart THEN Positions(YellSpinStart, size) ELSE <<>>)
      ELSE <<>>)

\* The positions CalcEEC reads: none unless the EEC histograms are on.
EECPositions(c, jet) ==
  IF c.m_manager.do_eec_hists
  THEN FillPositions(c.m_manager.do_spin_bins, Len(GetHistIndices(c, jet)))
  ELSE <<>>

\* indices[idx] past the end of the vector is undefined: it reads any index.
IndetIndices == {HistIndex(0, 0, 0, "Int"), HistIndex(SizeMax, SizeMax, SizeMax, "Int")}

\* The (index, content) pairs CalcEEC hands to FillEECHists, in order;
\* indet is what a read past the end yields.
EECFills(c, jet, csts, evt_weight, indet) ==
  LET indices == GetHistIndices(c, jet)
      positions == EECPositions(c, jet)
      content == EECContent(c, jet, csts, evt_weight)
  IN  [i \in 1..Len(positions) |->
         <<IF positions[i] < Len(indices) THEN indices[positions[i] + 1] ELSE indet,
           content>>]

\* HistManager::FillEECHists(index, content): one more entry at index.
FillEECHists(m, index, content) ==
  [m EXCEPT !.hists = @ (+) SetToBag({<<index, content>>})]

\* The fill calls made one after the other on the manager m.
RECURSIVE FillEach(_, _, _)
FillEach(m, fills, i) ==
  IF i > Len(fills) THEN m
  ELSE FillEach(FillEECHists(m, fills[i][1], fills[i][2]), fills, i + 1)

\* A CalcEEC that empties the histograms before it fills them.
CalcEECOverwriting(c, jet, csts, evt_weight, indet) ==
  [c EXCEPT !.m_manager =
     FillEach([@ EXCEPT !.hists = EmptyBag], EECFills(c, jet, csts, evt_weight, indet), 1)]

\* The Calculator after CalcEEC(jet, csts, evt_weight).
CalcEEC(c, jet, csts, evt_weight, indet) ==
  [c EXCEPT !.m_manager = FillEach(@, EECFills(c, jet, csts, evt_weight, indet), 1)]

\* angles are the locals ThetaSB_RC and ThetaSA_RC, once computed.
EECCalled(jet, csts, evt_weight, returned, angles, indices, fills) ==
  [op |-> "CalcEEC", jet |-> jet, csts |-> csts, evt_weight |-> evt_weight,
   returned |-> returned, angles |-> angles, indices |-> indices, fills |-> fills]

\* Some fill loop reads indices past its end.
ReadsPastEnd(c, jet) ==
  \E i \in 1..Len(EECPositions(c, jet)) :
    EECPositions(c, jet)[i] >= Len(GetHistIndices(c, jet))

\* What the reads past the end may yield; one value stands for all when no
\* read is past the end, as none is then used.
IndetReads(c, jet) ==
  IF ReadsPastEnd(c, jet) THEN IndetIndices ELSE {HistIndex(0, 0, 0, "Int")}

\* calc.CalcEEC(jet, csts, evt_weight).  A read past the end of indices is
\* undefined: the call crashes or goes on with whatever index it read.
DoCalcEEC(jet, csts, evt_weight) ==
  \/ /\ ReadsPastEnd(calc, jet)
     /\ status' = "crashed"
     /\ calc' = calc
     /\ call' = EECCalled(jet, csts, evt_weight, FALSE, EECAngles(jet, csts), <<>>, <<>>)
  \/ \E indet \in IndetReads(calc, jet) :
       /\ calc' = CalcEEC(calc, jet, csts, evt_weight, indet)
       /\ call' = EECCalled(jet, csts, evt_weight, TRUE, EECAngles(jet, csts),
                            IF calc.m_manager.do_eec_hists
                            THEN GetHistIndices(calc, jet) ELSE <<>>,
                            EECFills(calc, jet, csts, evt_weight, indet))
       /\ status' = status

-----------------------------------------------------------------------------
(* CalcEEC called once on a configured and initialised Calculator *)

\* The momenta of a constituent: the null vector and one along each axis.
CstVectors == {<<0, 0, 0>>, <<1, 0, 0>>, <<0, 1, 0>>, <<0, 0, 1>>}
CstPairs == CstVectors \X CstVectors

\* The event weights: the default argument, 1.0.
EvtWeights == {Fin(Unit)}

\* The jets: every pt under every pattern.
EECJets == {jet \in Jets : jet.cf = 0 /\ jet.charge = 0}

\* The Calculators: pt bins left alone or set, spin binning off or on,
\* Init(false) or Init(true).
EECConfigured ==
  {CalculatorInit(Configure(pt, <<FALSE, <<>>>>, <<FALSE, <<>>>>, spin), do_eec) :
     pt \in AxisChoices, spin \in BOOLEAN, do_eec \in BOOLEAN}

\* An initialised Calculator about to process one observation.
InitEEC ==
  /\ m_bins = BinsCtor
  /\ ndebug = FALSE
  /\ status = "running"
  /\ calc \in EECConfigured
  /\ shards = <<>>
  /\ call \in {EECCalled(jet, csts, evt_weight, FALSE, <<>>, <<>>, <<>>) :
                 jet \in EECJets, csts \in CstPairs, evt_weight \in EvtWeights}

CallCalcEEC ==
  /\ status = "running"
  /\ call.op = "CalcEEC"
  /\ ~call.returned
  /\ DoCalcEEC(call.jet, call.csts, call.evt_weight)
  /\ UNCHANGED <<m_bins, ndebug, shards>>

NextEEC == CallCalcEEC

SpecEEC == InitEEC /\ [][NextEEC]_vars

\* The bag of the entries of a sequence, each as often as it occurs.
SeqToBag(seq) ==
  [e \in {seq[i] : i \in 1..Len(seq)} |-> Cardinality({i \in 1..Len(seq) : seq[i] = e})]

\* C14: with the EEC histograms on, CalcEEC calls the fill once for every
\* index GetHistIndices returned, in list order and each time with the same
\* content, and reads no position past the end of the list, whether the
\* list has 4, 8 or 16 entries and spin binning is on or off; with the EEC
\* histograms off it makes no fill call.
C14_FillOncePerIndex ==
  [][(call'.op = "CalcEEC" /\ ~call.returned)
       => /\ status' = "running"
          /\ call'.returned
          /\ IF calc.m_manager.do_eec_hists
             THEN /\ Len(call'.fills) = Len(call'.indices)
                  /\ \A i \in 1..Len(call'.indices) :
                       /\ call'.fills[i][1] = call'.indices[i]
                       /\ call'.fills[i][2] = call'.fills[1][2]
                  /\ calc'.m_manager.hists =
                       calc.m_manager.hists (+) SeqToBag(call'.fills)
             ELSE /\ call'.fills = <<>>
                  /\ calc'.m_manager.hists = calc.m_manager.hists]_vars

\* Sixteen fills made with spin binning on.
C14_Witness ==
  /\ call.op = "CalcEEC"
  /\ call.returned
  /\ calc.m_manager.do_eec_hists
  /\ calc.m_manager.do_spin_bins
  /\ Len(call.indices) = 16
  /\ Len(call.fills) = 16
  /\ BagCardinality(calc.m_manager.hists) = 16

\* The cross products whose magnitudes CalcEEC divides by, for the blue
\* angle, the yellow angle and the dihadron angle both are taken against.
BlueCrosses(jet, csts) ==
  {Cross(BlueBeam, VAdd(csts[1], csts[2])), Cross(BlueBeam, GetSpins(jet.pattern)[1])}

YellowCrosses(jet, csts) ==
  {Cross(YellowBeam, VAdd(csts[1], csts[2])), Cross(YellowBeam, GetSpins(jet.pattern)[2])}

DihadronCrosses(jet, csts) ==
  {Cross(VAdd(csts[1], csts[2]), YellowBeam),
   Cross(VAdd(csts[1], csts[2]), VSub(csts[1], csts[2]))}

\* C15: when a cross product CalcEEC would divide by has zero magnitude
\* (collinear vectors, or the null spin vector GetSpins returns for the
\* single-beam and the unrecognized patterns), the call does not divide by
\* it: it fails, or the angle is a defined value, not the NaN of 0 * (1/0).
C15_DegenerateGuarded ==
  (call.op = "CalcEEC" /\ call.angles # <<>>)
    => /\ (\E x \in BlueCrosses(call.jet, call.csts)
                    \cup DihadronCrosses(call.jet, call.csts) : ZeroMag(x))
            => (status # "running" \/ call.angles.ThetaSB_RC # NaN)
       /\ (\E x \in YellowCrosses(call.jet, call.csts)
                    \cup DihadronCrosses(call.jet, call.csts) : ZeroMag(x))
            => (status # "running" \/ call.angles.ThetaSA_RC # NaN)

-----------------------------------------------------------------------------
(* The life of one Calculator: setters, Init and CalcEEC in any order *)

\* What the callers hand to the setters and to CalcEEC.
SetPowers == {Fin(2 * Unit)}
SetTypes == {"E"}
SetLists == {<<<<0, MaxVal>>>>}
CalcJets == {jet \in EECJets : jet.pt = 0 /\ jet.pattern = "PPBUYU"}
CalcCsts == {<<<<1, 0, 0>>, <<0, 1, 0>>>>}

\* CalcEEC is called while the histograms hold fewer entries than MaxObs
\* observations without spin binning leave.
MaxObs == 1

SetterCalled(op, arg) == [op |-> op, arg |-> arg]

CallSetWeightPower ==
  /\ status = "running"
  /\ \E power \in SetPowers :
       /\ calc' = SetWeightPower(calc, power)
       /\ call' = SetterCalled("SetWeightPower", power)
  /\ UNCHANGED <<m_bins, ndebug, status, shards>>

CallSetWeightType ==
  /\ status = "running"
  /\ \E weight \in SetTypes :
       /\ calc' = SetWeightType(calc, weight)
       /\ call' = SetterCalled("SetWeightType", weight)
  /\ UNCHANGED <<m_bins, ndebug, status, shards>>

CallSetPtJetBins ==
  /\ status = "running"
  /\ \E bins \in SetLists :
       /\ calc' = SetPtJetBins(calc, bins)
       /\ call' = SetterCalled("SetPtJetBins", bins)
  /\ UNCHANGED <<m_bins, ndebug, status, shards>>

CallSetCFJetBins ==
  /\ status = "running"
  /\ \E bins \in SetLists :
       /\ calc' = SetCFJetBins(calc, bins)
       /\ call' = SetterCalled("SetCFJetBins", bins)
  /\ UNCHANGED <<m_bins, ndebug, status, shards>>

CallSetChargeBins ==
  /\ status = "running"
  /\ \E bins \in SetLists :
       /\ calc' = SetChargeBins(calc, bins)
       /\ call' = SetterCalled("SetChargeBins", bins)
  /\ UNCHANGED <<m_bins, ndebug, status, shards>>

CallSetDoSpinBins ==
  /\ status = "running"
  /\ \E spin \in BOOLEAN :
       /\ calc' = SetDoSpinBins(calc, spin)
       /\ call' = SetterCalled("SetDoSpinBins", spin)
  /\ UNCHANGED <<m_bins, ndebug, status, shards>>

CallInit ==
  /\ status = "running"
  /\ \E do_eec \in BOOLEAN :
       /\ calc' = CalculatorInit(calc, do_eec)
       /\ call' = SetterCalled("Init", do_eec)
  /\ UNCHANGED <<m_bins, ndebug, status, shards>>

Observe ==
  /\ status = "running"
  /\ BagCardinality(calc.m_manager.hists) < NBinsPerSpin * MaxObs
  /\ \E jet \in CalcJets, csts \in CalcCsts, evt_weight \in EvtWeights :
       DoCalcEEC(jet, csts, evt_weight)
  /\ UNCHANGED <<m_bins, ndebug, shards>>

NextCalc ==
  \/ CallSetWeightPower
  \/ CallSetWeightType
  \/ CallSetPtJetBins
  \/ CallSetCFJetBins
  \/ CallSetChargeBins
  \/ CallSetDoSpinBins
  \/ CallInit
  \/ Observe

SpecCalc == Init /\ [][NextCalc]_vars

Setters ==
  {"SetPtJetBins", "SetCFJetBins", "SetChargeBins", "SetDoSpinBins",
   "SetWeightPower", "SetWeightType"}

\* C16: once Init and a CalcEEC call have put entries into the histograms,
\* a call of SetPtJetBins, SetCFJetBins, SetChargeBins, SetDoSpinBins,
\* SetWeightPower or SetWeightType is rejected, leaving the Calculator as it
\* was, or resets it fully, emptying the histograms.
C16_ConfigFixed ==
  [][(calc.m_manager.hists # EmptyBag /\ call'.op \in Setters)
       => \/ status' # "running" /\ calc' = calc
          \/ calc'.m_manager.hists = EmptyBag]_vars

-----------------------------------------------------------------------------
(* A sharded run: the same observations given to one Calculator and, each to
   one of them, to NumShards Calculators configured alike *)

NumShards == 2

\* Each side processes up to MaxShardObs observations.
MaxShardObs == 2

\* The observations: a dual-beam and a single-beam jet with one
\* constituent pair.
ShardObservations ==
  {<<jet, csts, evt_weight>> :
     jet \in {j \in EECJets : j.pt = 0 /\ j.pattern \in {"PPBUYU", "PABD"}},
     csts \in CalcCsts,
     evt_weight \in EvtWeights}

\* single and sharded are the bags of the observations processed so far by
\* the one Calculator and by the shards.
ShardsCalled(single, sharded) ==
  [op |-> "Sharded", single |-> single, sharded |-> sharded]

\* The bin-wise sum of the histograms of two managers.
Merge(h1, h2) == h1 (+) h2

\* The configurations of a sharded run: those of EECConfigured with the pt
\* bins left alone or set to lists of MaxBins different ranges.
ShardConfigured ==
  {c \in EECConfigured :
     IF c.m_manager.do_ptjet_bins
     THEN Len(c.m_ptjet_bins) = MaxBins /\ c.m_ptjet_bins[1] # c.m_ptjet_bins[MaxBins]
     ELSE TRUE}

InitShards ==
  /\ m_bins = BinsCtor
  /\ ndebug = FALSE
  /\ status = "running"
  /\ calc \in ShardConfigured
  /\ shards = [k \in 1..NumShards |-> calc]
  /\ call = ShardsCalled(EmptyBag, EmptyBag)

\* calc.CalcEEC(obs)
SingleCalcEEC ==
  /\ status = "running"
  /\ BagCardinality(call.single) < MaxShardObs
  /\ \E obs \in ShardObservations :
       \/ /\ ReadsPastEnd(calc, obs[1])
          /\ status' = "crashed"
          /\ UNCHANGED <<calc, call>>
       \/ \E indet \in IndetReads(calc, obs[1]) :
            /\ calc' = CalcEEC(calc, obs[1], obs[2], obs[3], indet)
            /\ call' = [call EXCEPT !.single = @ (+) SetToBag({obs})]
            /\ status' = status
  /\ UNCHANGED <<m_bins, ndebug, shards>>

\* shards[k].CalcEEC(obs)
ShardCalcEEC ==
  /\ status = "running"
  /\ BagCardinality(call.sharded) < MaxShardObs
  /\ \E k \in 1..NumShards, obs \in ShardObservations :
       \/ /\ ReadsPastEnd(shards[k], obs[1])
          /\ status' = "crashed"
          /\ UNCHANGED <<shards, call>>
       \/ \E indet \in IndetReads(shards[k], obs[1]) :
            /\ shards' = [shards EXCEPT ![k] = CalcEEC(@, obs[1], obs[2], obs[3], indet)]
            /\ call' = [call EXCEPT !.sharded = @ (+) SetToBag({obs})]
            /\ status' = status
  /\ UNCHANGED <<m_bins, ndebug, calc>>

NextShards == SingleCalcEEC \/ ShardCalcEEC

SpecShards == InitShards /\ [][NextShards]_vars

\* The merge of the histograms of shards k..NumShards.
RECURSIVE MergeFrom(_)
MergeFrom(k) ==
  IF k > NumShards THEN EmptyBag
  ELSE Merge(shards[k].m_manager.hists, MergeFrom(k + 1))

-----------------------------------------------------------------------------
(* Properties of the bin lookup (checked under SpecIndex) *)

\* The three axes of a returned call: whether the sub-binning is on, its
\* ranges, the jet's value and the coordinate of base_index.
IndexAxes ==
  {[axis |-> "pt", on |-> calc.m_manager.do_ptjet_bins, bins |-> calc.m_ptjet_bins,
    value |-> call.jet.pt, coord |-> call.base_index.pt],
   [axis |-> "cf", on |-> calc.m_manager.do_cfjet_bins, bins |-> calc.m_cfjet_bins,
    value |-> call.jet.cf, coord |-> call.base_index.cf],
   [axis |-> "charge", on |-> calc.m_manager.do_charge_bins, bins |-> calc.m_chrg_bins,
    value |-> call.jet.charge, coord |-> call.base_index.chrg]}

Least(S) == CHOOSE x \in S : \A y \in S : x <= y
Greatest(S) == CHOOSE x \in S : \A y \in S : x >= y

\* C18 as claimed: on each enabled axis the coordinate is the ordinal of
\* the first range [low, high), in list order, that holds the jet's value,
\* also when ranges overlap; low edges are inside, high edges outside.
C18_FirstMatch ==
  IndexReturned
    => \A a \in IndexAxes :
         (a.on /\ Matching(a.bins, a.value) # {})
           => a.coord = Least(Matching(a.bins, a.value))

\* C18 as amended: on each enabled axis the coordinate is the ordinal of
\* the last range [low, high), in list order, that holds the jet's value;
\* low edges are inside, high edges outside.
C18_LastMatch ==
  IndexReturned
    => \A a \in IndexAxes :
         (a.on /\ Matching(a.bins, a.value) # {})
           => a.coord = Greatest(Matching(a.bins, a.value))

\* A pt that two overlapping ranges hold, the second being selected, and a
\* charge on the low edge of the one range that holds it.
C18_Witness ==
  /\ IndexReturned
  /\ calc.m_manager.do_ptjet_bins
  /\ Cardinality(Matching(calc.m_ptjet_bins, call.jet.pt)) = 2
  /\ call.base_index.pt = 1
  /\ calc.m_manager.do_charge_bins
  /\ Matching(calc.m_chrg_bins, call.jet.charge) = {1}
  /\ calc.m_chrg_bins[2][1] = call.jet.charge
  /\ call.base_index.chrg = 1

\* C19: when pt (charge) binning is on and the jet's pt (charge) lies in
\* none of the configured ranges, the pt (charge) coordinate of the
\* 'binned' indices is the integrated sentinel, the number of configured
\* bins, not the ordinal of a bin.
C19_NoMatchKeepsSentinel ==
  IndexReturned
    => \A a \in {x \in IndexAxes : x.axis \in {"pt", "charge"}} :
         (a.on /\ Matching(a.bins, a.value) = {})
           => /\ a.coord = Len(a.bins)
              /\ \A k \in 0..((Len(call.ret) \div 4) - 1) :
                   IF a.axis = "pt"
                   THEN call.ret[4 * k + 2].pt = Len(a.bins)
                        /\ call.ret[4 * k + 4].pt = Len(a.bins)
                   ELSE call.ret[4 * k + 3].chrg = Len(a.bins)
                        /\ call.ret[4 * k + 4].chrg = Len(a.bins)

\* C20: every returned index carries the same charge-fraction coordinate:
\* the ordinal of a configured range that holds the jet's cf, or 0 when cf
\* binning is off or no range holds it; there is no integrated cf
\* coordinate, and indices are returned in every case.
C20_CfCoordinate ==
  IndexReturned
    => /\ Len(call.ret) >= 4
       /\ \A i \in 1..Len(call.ret) : call.ret[i].cf = call.ret[1].cf
       /\ IF calc.m_manager.do_cfjet_bins
             /\ Matching(calc.m_cfjet_bins, call.jet.cf) # {}
          THEN call.ret[1].cf \in Matching(calc.m_cfjet_bins, call.jet.cf)
          ELSE call.ret[1].cf = 0

\* Sixteen indices with the cf coordinate of the one range, the second,
\* that holds the jet's cf, on its low edge.
C20_Witness ==
  /\ IndexReturned
  /\ calc.m_manager.do_cfjet_bins
  /\ Matching(calc.m_cfjet_bins, call.jet.cf) = {1}
  /\ calc.m_cfjet_bins[2][1] = call.jet.cf
  /\ Len(call.ret) = 16
  /\ \A i \in 1..16 : call.ret[i].cf = 1

-----------------------------------------------------------------------------
(* The two per-pattern tables, GetSpins and the switch of GetHistIndices
   (checked under SpecEEC, where CalcEEC calls both for the same jet) *)

\* The states in which CalcEEC has returned with spin binning and the EEC
\* histograms on: call.indices is then what GetHistIndices returned.
SpinIndicesReturned ==
  /\ call.op = "CalcEEC"
  /\ call.returned
  /\ calc.m_manager.do_spin_bins
  /\ calc.m_manager.do_eec_hists

\* The spin indices of the blocks GetHistIndices emitted.
EmittedSpins == {call.indices[i].spin : i \in 1..Len(call.indices)}

\* The direction of a spin vector.
SpinDirection(spin) ==
  IF spin = SpinUp THEN "U" ELSE IF spin = SpinDown THEN "D" ELSE "other"

\* The block that names a blue spin, a yellow spin, and the two of them.
BlueBlock == [U |-> "BU", D |-> "BD", other |-> "none"]
YellowBlock == [U |-> "YU", D |-> "YD", other |-> "none"]
BothBlock ==
  [U |-> [U |-> "BUYU", D |-> "BUYD", other |-> "none"],
   D |-> [U |-> "BDYU", D |-> "BDYD", other |-> "none"],
   other |-> [U |-> "none", D |-> "none", other |-> "none"]]

\* C22: the two per-pattern tables agree for every pattern: with spin
\* binning on, GetHistIndices emits a blue (yellow) block exactly when
\* GetSpins returns a non-null blue (yellow) spin for the pattern, the block
\* is the one of that spin's direction (BU/BD, YU/YD), and the combined block
\* (BUYU, BDYU, BUYD, BDYD) is emitted exactly when both spins are non-null
\* and is the one that names their two directions.
C22_TablesAgree ==
  SpinIndicesReturned
    => LET blue == GetSpins(call.jet.pattern)[1]
           yellow == GetSpins(call.jet.pattern)[2]
           blues == EmittedSpins \cap {"BU", "BD"}
           yellows == EmittedSpins \cap {"YU", "YD"}
           boths == EmittedSpins \cap {"BUYU", "BDYU", "BUYD", "BDYD"}
       IN  /\ (blues # {}) <=> ~ZeroMag(blue)
           /\ (yellows # {}) <=> ~ZeroMag(yellow)
           /\ (boths # {}) <=> (~ZeroMag(blue) /\ ~ZeroMag(yellow))
           /\ blues \subseteq {BlueBlock[SpinDirection(blue)]}
           /\ yellows \subseteq {YellowBlock[SpinDirection(yellow)]}
           /\ boths \subseteq {BothBlock[SpinDirection(blue)][SpinDirection(yellow)]}

\* Blue down and yellow up: GetSpins gave both spins, recorded in the
\* content of the fills, and the blocks BD, YU and BDYU were emitted.
C22_Witness ==
  /\ SpinIndicesReturned
  /\ call.jet.pattern = "PPBDYU"
  /\ Len(call.fills) = 16
  /\ call.fills[1][2].spinB = SpinDown[2]
  /\ call.fills[1][2].spinY = SpinUp[2]
  /\ EmittedSpins = {"Int", "BD", "YU", "BDYU"}

====
